---- MODULE Spec2Model ----
(***************************************************************************)
(* Model of collector/product.go of kingsoftcloud-exporter:                *)
(*   KscProductCollector          (Metric Registry, Query Set, Collect,    *)
(*                                 LoadMetricsByProductConf)               *)
(*   KscProductCollectorReloader  (Run, Stop)                              *)
(* Strings are sequences of one-character strings, so that the Registry    *)
(* key fmt.Sprintf("%s.%s", name, id) and strings.ToLower are computed.    *)
(* Packages metric, config, instance, util and the product handlers are    *)
(* not part of the modelled file; what the collector needs of them is      *)
(* modelled from the specification of the exporter.                        *)
(***************************************************************************)
EXTENDS Integers, Sequences, FiniteSets, TLC

VARIABLES
    deployment,     \* what the exporter runs against: the namespaces and product
                    \* configurations it may be started with, the instances and
                    \* the metric names the account may show
    collector,      \* life cycle of the *KscProductCollector
    Namespace,      \* c.Namespace
    confExclude,    \* productConf.ExcludeMetrics as configured
    MetricMap,      \* c.MetricMap: key -> *metric.Metric (an address of Metrics)
    Metrics,        \* the heap of metric.Metric objects: address -> object
    Queries,        \* c.Queries: sequence of *metric.Query
    now,            \* time.Now().Unix()
    lpc,            \* position of the executing LoadMetricsByProductConf
    snapshot,       \* LoadMetricsByProductConf: what GetInstances returned
    instances,      \* loadMetrics: instances still to visit
    listed,         \* the instances the running cycle has called ListMetrics for
    ins,            \* loadMetrics: the instance being visited
    allMeta,        \* loadMetrics: metadata of ins still to visit
    meta,           \* loadMetrics: the metadata whose Metric is to be inserted
    excludeMetrics, \* loadMetrics: the lower-cased exclusion list
    nm,             \* loadMetrics: the Metric being loaded
    currentTime,    \* LoadMetricsByProductConf: currentTime
    todo,           \* LoadMetricsByProductConf: keys the range loop has not visited
    skipped,        \* the instances of the "request metric list fail" lines the
                    \* running cycle has logged
    lastErr,        \* result of the last LoadMetricsByProductConf: "none", "nil", "err"
    cycles,         \* number of reloads the Reloader has started
    rpc,            \* position of the Reloader
    ctxDone,        \* r.ctx.Done() is closed
    tickPending,    \* a tick is buffered in ticker.C
    ticked,         \* the ticker has fired since Run began or, if Run has started
                    \* a reload, since it started the last one
    stopCalls,      \* number of calls of Stop so far
    stoppedAt,      \* where Run was, and the reloads it had started, at the first Stop
    cpc,            \* position of Collect
    queriesGroup,   \* Collect: the batches of c.Queries.SplitByBatch
    tasks,          \* Collect: state of the goroutine of each batch
    pms,            \* Collect: samples each goroutine still has to send
    sink,           \* samples sent on ch during the current Collect
    capacity,       \* cap(ch), the caller's choice
    received,       \* how many samples of sink the consumer has received
    consumer,       \* the receiver of ch: "receiving" or "stopped"
    published       \* c.Queries as the last completed cycle left it

loadVars == <<lpc, snapshot, instances, listed, ins, allMeta, meta, excludeMetrics, nm,
              currentTime, todo, skipped>>
registryVars == <<MetricMap, Metrics>>
reloaderVars == <<rpc, ctxDone, tickPending, ticked, stopCalls, stoppedAt>>
collectVars == <<cpc, queriesGroup, tasks, pms, sink, capacity, received, consumer>>
confVars == <<deployment, Namespace, confExclude>>

vars == <<deployment, collector, Namespace, confExclude, MetricMap, Metrics, Queries, now,
          lpc, snapshot, instances, listed, ins, allMeta, meta, excludeMetrics, nm,
          currentTime, todo, skipped, lastErr, cycles, rpc, ctxDone, tickPending, ticked, stopCalls,
          stoppedAt, cpc, queriesGroup, tasks, pms, sink, capacity, received, consumer,
          published>>

(***************************************************************************)
(* Bounds of the model.                                                    *)
(***************************************************************************)
T0 == 61            \* the clock at start (Unix time is far from 0)
MaxElapsed == 61    \* the clock advances by at most this much in a run
MaxReloads == 2     \* reloads the Reloader starts
MaxStops == 2       \* calls of Stop
MaxInstances == 2   \* length of an instance snapshot
MaxMetas == 2       \* length of a ListMetrics result
MaxCapacity == 1    \* capacity of the channel Collect is given

Durations == {60, 61}

(***************************************************************************)
(* Strings.                                                                *)
(***************************************************************************)
Dot == <<".">>

\* Two metric names and two instance ids with Key(n1, i1) = Key(n2, i2); the
\* metric names in the order in which the Metric Repository lists them.
FullDeployment ==
    [Namespaces |-> { "KS3", "KEC" },
     ExcludeConfs |-> { <<>>, << <<"C">> >> },
     InstanceIds |-> { <<"b">>, <<"a", ".", "b">> },
     MetricNames |-> << <<"c">>, <<"c", ".", "a">> >>]

\* One namespace, one instance, one metric.
MinimalDeployment ==
    [Namespaces |-> { "KS3" },
     ExcludeConfs |-> { <<>> },
     InstanceIds |-> { <<"b">> },
     MetricNames |-> << <<"c">> >>]

\* One instance with two metrics.
SmallDeployment ==
    [Namespaces |-> { "KS3", "KEC" },
     ExcludeConfs |-> { <<>> },
     InstanceIds |-> { <<"b">> },
     MetricNames |-> << <<"c">>, <<"c", ".", "a">> >>]

\* One instance; a metric name in both letter cases and an exclusion entry in
\* both letter cases, and a metric name no entry excludes.
CaseDeployment ==
    [Namespaces |-> { "KS3" },
     ExcludeConfs |-> { <<>>, << <<"C">> >>, << <<"c">> >> },
     InstanceIds |-> { <<"b">> },
     MetricNames |-> << <<"a">>, <<"C">>, <<"c">> >>]

\* strings.ToLower, on the letters of the model's alphabet
LowerChar(ch) ==
    CASE ch = "A" -> "a"
      [] ch = "B" -> "b"
      [] ch = "C" -> "c"
      [] OTHER -> ch

ToLower(s) == [i \in 1..Len(s) |-> LowerChar(s[i])]

\* util.IsStrInList
IsStrInList(list, s) == \E i \in 1..Len(list) : list[i] = s

\* fmt.Sprintf("%s.%s", meta.MetricName, instanceId)
Key(name, id) == name \o Dot \o id

\* all sequences of distinct elements of S of length at most n
RECURSIVE DistinctSeqs(_, _)
DistinctSeqs(S, n) ==
    IF n = 0 THEN { <<>> }
    ELSE LET shorter == DistinctSeqs(S, n - 1)
             longest == { p \in shorter : Len(p) = n - 1 }
         IN  shorter \cup
             UNION { { Append(p, x) : x \in { y \in S : \A i \in 1..Len(p) : p[i] # y } } :
                     p \in longest }

\* the subsequences of seq of length at most n
RECURSIVE SubSeqsOf(_, _)
SubSeqsOf(seq, n) ==
    IF seq = <<>> \/ n = 0 THEN { <<>> }
    ELSE SubSeqsOf(Tail(seq), n)
         \cup { <<Head(seq)>> \o t : t \in SubSeqsOf(Tail(seq), n - 1) }

(***************************************************************************)
(* Configuration (package config).  The package is not among the modelled  *)
(* files: the three sizes are scaled to the deployments of the model, and  *)
(* one namespace stands for those with multi-dimension monitoring.         *)
(***************************************************************************)
DefaultSupportInstances == 1

DefaultQueryMetricBatchSize == 2

DefaultKS3QueryMetricBatchSize == 1

IsSupportMultiDimensionNamespace(ns) == ns = "KEC"

\* line 126
RecencyWindow == 60

(***************************************************************************)
(* Package metric, as the specification describes it: a Metric carries the *)
(* time of its last load and a cache of series; LoadSeries replaces the     *)
(* cache and sets the time; NewQuery pairs a Metric with the repository.   *)
(***************************************************************************)
\* LoadTimeAt of a Metric no series were loaded into
NeverLoaded == 0

\* The address of a Metric object: the arguments it was constructed for and
\* the number of objects constructed for them so far, so that the n-th object
\* made for one (name, id) is a different object from the first.
NoAddr == <<>>

NewAddr(heap, name, id) ==
    <<name, id, Cardinality({ a \in DOMAIN heap : a[1] = name /\ a[2] = id }) + 1>>

\* metric.NewMetric(meta, conf)
NewMetric(name) ==
    [MetricName |-> name, LoadTimeAt |-> NeverLoaded, SeriesCache |-> {}]

\* (*Metric).LoadSeries(series): the heap after the call
LoadSeries(heap, m, series, fails) ==
    IF fails THEN heap
    ELSE [heap EXCEPT ![m].SeriesCache = series, ![m].LoadTimeAt = now]

\* metric.NewQuery(m, repo)
NewQuery(m) == [Metric |-> m]

\* (q, e) of metric.NewQuery: the Query of m, or an error
NewQueryOutcomes(m) ==
    { [q |-> NewQuery(m), err |-> FALSE], [q |-> <<>>, err |-> TRUE] }

\* QuerySet.SplitByBatch(batchSize): ceil(L / n) batches of at most n queries,
\* in order
SplitByBatch(qs, n) ==
    [b \in 1..((Len(qs) + n - 1) \div n) |->
        SubSeq(qs, (b - 1) * n + 1, IF b * n < Len(qs) THEN b * n ELSE Len(qs))]

\* metric.GetPromMetricsByQueries(q, logger): (pms, err); a fetch that succeeds
\* returns one sample for each query of batch b
GetPromMetricsOutcomes(b, q) ==
    { [pms |-> [i \in 1..Len(q) |-> [batch |-> b, query |-> q[i]]], err |-> FALSE],
      [pms |-> <<>>, err |-> TRUE] }

\* MetricRepository.ListMetrics(namespace, instanceId): (allMeta, err); the
\* interface does not say that a call that returns an error returns no metadata
ListMetricsOutcomes ==
    { [allMeta |-> l, err |-> e] :
        l \in SubSeqsOf(deployment.MetricNames, MaxMetas), e \in BOOLEAN }

\* handler.GetSeriesByInstances(nm, {ins}): (series, err)
GetSeriesOutcomes(i) ==
    { [series |-> {i}, err |-> FALSE], [series |-> {}, err |-> TRUE] }

\* handler.GetInstances(): the snapshots
Snapshots == DistinctSeqs(deployment.InstanceIds, MaxInstances)

EmptyMap == [k \in {} |-> 0]

NotStopped == [rpc |-> "none", cycles |-> 0]

NoName == <<>>

InitOn(d) ==
    /\ deployment = d
    /\ collector = "none"
    /\ Namespace = "KEC"
    /\ confExclude = <<>>
    /\ MetricMap = EmptyMap
    /\ Metrics = EmptyMap
    /\ Queries = <<>>
    /\ now = T0
    /\ lpc = "idle"
    /\ snapshot = <<>>
    /\ instances = <<>>
    /\ listed = <<>>
    /\ ins = NoName
    /\ allMeta = <<>>
    /\ meta = NoName
    /\ excludeMetrics = <<>>
    /\ nm = NoAddr
    /\ currentTime = 0
    /\ todo = {}
    /\ skipped = {}
    /\ lastErr = "none"
    /\ cycles = 0
    /\ rpc = "none"
    /\ ctxDone = FALSE
    /\ tickPending = FALSE
    /\ ticked = FALSE
    /\ stopCalls = 0
    /\ stoppedAt = NotStopped
    /\ cpc = "idle"
    /\ queriesGroup = <<>>
    /\ tasks = <<>>
    /\ pms = <<>>
    /\ sink = <<>>
    /\ capacity = 0
    /\ received = 0
    /\ consumer = "receiving"
    /\ published = <<>>

(***************************************************************************)
(* The clock.                                                              *)
(***************************************************************************)
Advance ==
    /\ \E d \in Durations :
          /\ now + d <= T0 + MaxElapsed
          /\ now' = now + d
    /\ UNCHANGED <<collector, confVars, registryVars, Queries, loadVars, lastErr,
                   cycles, reloaderVars, collectVars, published>>

(***************************************************************************)
(* LoadMetricsByProductConf.                                               *)
(***************************************************************************)
\* a return after which the constructor returns the collector whatever e is
LoadReturn_AlwaysReady(e) ==
    /\ lpc' = "idle"
    /\ lastErr' = IF e THEN "err" ELSE "nil"
    /\ snapshot' = <<>>
    /\ instances' = <<>>
    /\ listed' = <<>>
    /\ ins' = NoName
    /\ allMeta' = <<>>
    /\ meta' = NoName
    /\ excludeMetrics' = <<>>
    /\ nm' = NoAddr
    /\ currentTime' = 0
    /\ todo' = {}
    /\ skipped' = {}
    /\ IF collector = "constructing"
       THEN /\ collector' = "ready"
            /\ rpc' = rpc
       ELSE /\ collector' = collector
            /\ rpc' = "select"

\* a return after which Run itself returns when e is an error
LoadReturn_Fatal(e) ==
    /\ lpc' = "idle"
    /\ lastErr' = IF e THEN "err" ELSE "nil"
    /\ snapshot' = <<>>
    /\ instances' = <<>>
    /\ listed' = <<>>
    /\ ins' = NoName
    /\ allMeta' = <<>>
    /\ meta' = NoName
    /\ excludeMetrics' = <<>>
    /\ nm' = NoAddr
    /\ currentTime' = 0
    /\ todo' = {}
    /\ skipped' = {}
    /\ IF collector = "constructing"
       THEN /\ collector' = IF e THEN "failed" ELSE "ready"
            /\ rpc' = rpc
       ELSE /\ collector' = collector
            /\ rpc' = IF e THEN "returned" ELSE "select"

\* return e: the locals die and the caller goes on (NewKscProductCollector
\* lines 317-321, Run lines 251-255)
LoadReturn(e) ==
    /\ lpc' = "idle"
    /\ lastErr' = IF e THEN "err" ELSE "nil"
    /\ snapshot' = <<>>
    /\ instances' = <<>>
    /\ listed' = <<>>
    /\ ins' = NoName
    /\ allMeta' = <<>>
    /\ meta' = NoName
    /\ excludeMetrics' = <<>>
    /\ nm' = NoAddr
    /\ currentTime' = 0
    /\ todo' = {}
    /\ skipped' = {}
    /\ IF collector = "constructing"
       THEN /\ collector' = IF e THEN "failed" ELSE "ready"
            /\ rpc' = rpc
       ELSE /\ collector' = collector
            /\ rpc' = "select"

\* a truncation that keeps the last instances of the snapshot
Truncate_Last(s) ==
    IF IsSupportMultiDimensionNamespace(Namespace)
       /\ Len(s) > DefaultSupportInstances
    THEN SubSeq(s, Len(s) - DefaultSupportInstances + 1, Len(s))
    ELSE s

\* lines 85-115: GetInstances and the truncation of the snapshot
Truncate(s) ==
    IF IsSupportMultiDimensionNamespace(Namespace)
       /\ Len(s) > DefaultSupportInstances
    THEN SubSeq(s, 1, DefaultSupportInstances)
    ELSE s

\* a cycle that empties c.Queries before it asks for the instances
LoadBegin_Reset ==
    /\ lpc = "start"
    /\ Queries' = <<>>
    /\ \/ /\ LoadReturn(TRUE)
          /\ published' = Queries'
       \/ /\ \E s \in Snapshots :
                /\ snapshot' = s
                /\ instances' = Truncate(s)
          /\ excludeMetrics' = [i \in 1..Len(confExclude) |-> ToLower(confExclude[i])]
          /\ lpc' = "loop"
          /\ UNCHANGED <<collector, rpc, lastErr, listed, ins, allMeta, meta, nm,
                         currentTime, todo, skipped, published>>
    /\ UNCHANGED <<confVars, registryVars, now, cycles, ctxDone, tickPending,
                   ticked, stopCalls, stoppedAt, collectVars>>

\* lines 85-120 and 140-152: GetInstances, the truncation, GetProductConfig and
\* the lower-cased exclusion list
LoadBegin ==
    /\ lpc = "start"
    /\ \/ /\ LoadReturn(TRUE)
          /\ published' = Queries
       \/ /\ \E s \in Snapshots :
                /\ snapshot' = s
                /\ instances' = Truncate(s)
          /\ excludeMetrics' = [i \in 1..Len(confExclude) |-> ToLower(confExclude[i])]
          /\ lpc' = "loop"
          /\ UNCHANGED <<collector, rpc, lastErr, listed, ins, allMeta, meta, nm,
                         currentTime, todo, skipped, published>>
    /\ UNCHANGED <<confVars, registryVars, Queries, now, cycles, ctxDone,
                   tickPending, ticked, stopCalls, stoppedAt, collectVars>>

\* lines 153-159: the next instance and its ListMetrics; an error is logged and
\* what ListMetrics returned with it is ranged over like any other result
LoadListMetrics ==
    /\ lpc = "loop"
    /\ allMeta = <<>>
    /\ instances # <<>>
    /\ ins' = Head(instances)
    /\ instances' = Tail(instances)
    /\ listed' = Append(listed, Head(instances))
    /\ \E r \in ListMetricsOutcomes :
          /\ allMeta' = r.allMeta
          /\ skipped' = IF r.err THEN skipped \cup {Head(instances)} ELSE skipped
    /\ UNCHANGED <<collector, confVars, registryVars, Queries, now, snapshot,
                   meta, excludeMetrics, lpc,
                   nm, currentTime, todo, lastErr, cycles, reloaderVars,
                   collectVars, published>>

\* createMetricWithMeta without the lookup of lines 199-202: always a new Metric
createMetricWithMeta_AlwaysNew(name, id, fails) ==
    IF fails
    THEN [nm |-> NoAddr, err |-> TRUE, heap |-> Metrics]
    ELSE LET a == NewAddr(Metrics, name, id)
         IN  [nm |-> a, err |-> FALSE, heap |-> (a :> NewMetric(name)) @@ Metrics]

\* lines 195-215: the Metric of the key if the Registry has one, or a new one
createMetricWithMeta(name, id, fails) ==
    LET key == Key(name, id) IN
    IF key \in DOMAIN MetricMap
    THEN [nm |-> MetricMap[key], err |-> FALSE, heap |-> Metrics]
    ELSE IF fails
         THEN [nm |-> NoAddr, err |-> TRUE, heap |-> Metrics]
         ELSE LET a == NewAddr(Metrics, name, id)
              IN  [nm |-> a, err |-> FALSE, heap |-> (a :> NewMetric(name)) @@ Metrics]

\* a filter that compares the discovered name as it is
Excluded_CaseSensitive(name) ==
    Len(excludeMetrics) # 0 /\ IsStrInList(excludeMetrics, name)

\* line 161
Excluded(name) ==
    Len(excludeMetrics) # 0 /\ IsStrInList(excludeMetrics, ToLower(name))

\* an insert into a map made anew
Insert_Remade(map, name, id, m) == (Key(name, id) :> m)

\* lines 171-174
Insert(map, name, id, m) == (Key(name, id) :> m) @@ map

\* lines 160-169 and 195-215: the next metadata: filter, then the lookup under
\* the read lock and, on a miss, the construction with no lock held
LoadCreateMetric ==
    /\ lpc = "loop"
    /\ allMeta # <<>>
    /\ allMeta' = Tail(allMeta)
    /\ LET name == Head(allMeta) IN
       IF Excluded(name)
       THEN UNCHANGED <<Metrics, meta, nm, lpc>>
       ELSE \E fails \in BOOLEAN :
               LET r == createMetricWithMeta(name, ins, fails) IN
               IF r.err
               THEN UNCHANGED <<Metrics, meta, nm, lpc>>
               ELSE /\ Metrics' = r.heap
                    /\ meta' = name
                    /\ nm' = r.nm
                    /\ lpc' = "insert"
    /\ UNCHANGED <<collector, confVars, MetricMap, Queries, now, snapshot, instances,
                   listed, ins,
                   excludeMetrics, currentTime, todo, skipped, lastErr, cycles,
                   reloaderVars, collectVars, published>>

\* lines 171-174: the insert, in a critical section of its own under the write
\* lock; other goroutines may have run since the lookup
LoadInsert ==
    /\ lpc = "insert"
    /\ MetricMap' = Insert(MetricMap, meta, ins, nm)
    /\ meta' = NoName
    /\ lpc' = "series"
    /\ UNCHANGED <<collector, confVars, Metrics, Queries, now, snapshot, instances,
                   listed, ins, allMeta, excludeMetrics, nm, currentTime, todo,
                   skipped, lastErr, cycles, reloaderVars, collectVars, published>>

\* lines 177-187: resolve the series of nm and load them into it
LoadLoadSeries ==
    /\ lpc = "series"
    /\ \E s \in GetSeriesOutcomes(ins), fails \in BOOLEAN :
          Metrics' = LoadSeries(Metrics, nm, s.series, fails)
    /\ nm' = NoAddr
    /\ lpc' = "loop"
    /\ UNCHANGED <<collector, confVars, MetricMap, Queries, now, snapshot, instances,
                   listed, ins,
                   allMeta, meta, excludeMetrics, currentTime, todo, skipped, lastErr,
                   cycles, reloaderVars, collectVars, published>>

\* lines 118-125: loadMetrics returned nil; read the clock, start the range loop
LoadCurrentTime ==
    /\ lpc = "loop"
    /\ allMeta = <<>>
    /\ instances = <<>>
    /\ currentTime' = now
    /\ todo' = DOMAIN MetricMap
    /\ lpc' = "queries"
    /\ UNCHANGED <<collector, confVars, registryVars, Queries, now, snapshot, instances,
                   listed, ins,
                   allMeta, meta, excludeMetrics, nm, skipped, lastErr, cycles,
                   reloaderVars, collectVars, published>>

\* line 126
Fresh(m) == currentTime - Metrics[m].LoadTimeAt < RecencyWindow

\* line 131
AppendQuery(qs, m) == Append(qs, NewQuery(m))

\* lines 125-134: one iteration of the range over c.MetricMap (any order)
LoadAppendQuery ==
    /\ lpc = "queries"
    /\ \E key \in todo :
          LET m == MetricMap[key] IN
          IF Fresh(m)
          THEN \E r \in NewQueryOutcomes(m) :
               IF r.err
               THEN /\ LoadReturn(TRUE)
                    /\ published' = Queries
                    /\ UNCHANGED Queries
               ELSE /\ Queries' = AppendQuery(Queries, m)
                    /\ todo' = todo \ {key}
                    /\ UNCHANGED <<collector, rpc, lastErr, lpc, snapshot,
                                   instances, listed, ins,
                                   allMeta, meta, excludeMetrics, nm, currentTime,
                                   skipped, published>>
          ELSE /\ todo' = todo \ {key}
               /\ UNCHANGED <<Queries, collector, rpc, lastErr, lpc, snapshot,
                              instances, listed, ins, allMeta, meta, excludeMetrics, nm, currentTime,
                              skipped, published>>
    /\ UNCHANGED <<confVars, registryVars, now, cycles, ctxDone, tickPending, ticked,
                   stopCalls, stoppedAt, collectVars>>

\* lines 136-137
LoadReturnNil ==
    /\ lpc = "queries"
    /\ todo = {}
    /\ LoadReturn(FALSE)
    /\ published' = Queries
    /\ UNCHANGED <<confVars, registryVars, Queries, now, cycles, ctxDone,
                   tickPending, ticked, stopCalls, stoppedAt, collectVars>>

(***************************************************************************)
(* NewKscProductCollector.                                                 *)
(***************************************************************************)
\* lines 271-317: up to the call of LoadMetricsByProductConf (cycle zero); the
\* lookup of the handler factory, the instance repository and the factory may
\* fail; LoadMetricsByMetricConf (lines 77-82) only makes the empty map
NewKscProductCollector ==
    /\ collector = "none"
    /\ \E ns \in deployment.Namespaces, ex \in deployment.ExcludeConfs, ok \in BOOLEAN :
          /\ Namespace' = ns
          /\ confExclude' = ex
          /\ IF ok
             THEN collector' = "constructing" /\ lpc' = "start"
             ELSE collector' = "failed" /\ lpc' = lpc
    /\ UNCHANGED <<deployment, registryVars, Queries, now, snapshot, instances,
                   listed, ins, allMeta, meta,
                   excludeMetrics, nm, currentTime, todo, skipped, lastErr, cycles,
                   reloaderVars, collectVars, published>>

(***************************************************************************)
(* KscProductCollectorReloader.                                            *)
(***************************************************************************)
\* lines 325-340: a Reloader for a constructed collector; ctx is not cancelled
NewKscProductCollectorReloader ==
    /\ collector = "ready"
    /\ rpc = "none"
    /\ rpc' = "created"
    /\ ctxDone' = FALSE
    /\ UNCHANGED <<collector, confVars, registryVars, Queries, now, loadVars,
                   lastErr, cycles, tickPending, ticked, stopCalls, stoppedAt, collectVars,
                   published>>

\* lines 241-246: Run creates the ticker and goes to sleep
RunStart ==
    /\ rpc = "created"
    /\ rpc' = "sleeping"
    /\ tickPending' = FALSE
    /\ ticked' = FALSE
    /\ UNCHANGED <<collector, confVars, registryVars, Queries, now, loadVars,
                   lastErr, cycles, ctxDone, stopCalls, stoppedAt, collectVars,
                   published>>

\* the ticker of line 242 fires, once every r.reloadInterval from its creation:
\* ticker.C buffers one tick, a tick that finds it full is dropped
TickerActive == rpc \in {"sleeping", "loop", "reloading", "select"}

TickerFire ==
    /\ TickerActive
    /\ ~tickPending \/ ~ticked
    /\ tickPending' = TRUE
    /\ ticked' = TRUE
    /\ UNCHANGED <<collector, confVars, registryVars, Queries, now, loadVars,
                   lastErr, cycles, rpc, ctxDone, stopCalls, stoppedAt, collectVars,
                   published>>

\* line 246: time.Sleep(r.reloadInterval) returns, not before the ticker that
\* line 242 created with the same interval has fired for the first time
SleepOver == ticked

RunSleepDone ==
    /\ rpc = "sleeping"
    /\ SleepOver
    /\ rpc' = "loop"
    /\ UNCHANGED <<collector, confVars, registryVars, Queries, now, loadVars,
                   lastErr, cycles, ctxDone, tickPending, ticked, stopCalls, stoppedAt,
                   collectVars, published>>

\* a loop that calls LoadMetricsByProductConf without waiting for the call in
\* progress to return
RunReloadGuard_Any == rpc \in {"loop", "reloading"}

\* lines 248-250: the head of the loop calls LoadMetricsByProductConf
RunReloadGuard == rpc = "loop"

RunReload ==
    /\ RunReloadGuard
    /\ cycles < MaxReloads
    /\ rpc' = "reloading"
    /\ lpc' = "start"
    /\ cycles' = cycles + 1
    /\ ticked' = FALSE
    /\ UNCHANGED <<collector, confVars, registryVars, Queries, now, snapshot, instances,
                   listed, ins,
                   allMeta, meta, excludeMetrics, nm, currentTime, todo, skipped, lastErr,
                   ctxDone, tickPending, stopCalls, stoppedAt, collectVars,
                   published>>

\* a select whose Done case is ready whether or not the context is cancelled
SelectDoneReady_Always == TRUE

\* lines 255-259: the select; when both channels are ready either case may run
SelectDoneReady == ctxDone

SelectTickReady == tickPending

RunSelectDone ==
    /\ rpc = "select"
    /\ SelectDoneReady
    /\ rpc' = "returned"
    /\ UNCHANGED <<collector, confVars, registryVars, Queries, now, loadVars,
                   lastErr, cycles, ctxDone, tickPending, ticked, stopCalls, stoppedAt,
                   collectVars, published>>

RunSelectTick ==
    /\ rpc = "select"
    /\ SelectTickReady
    /\ tickPending' = FALSE
    /\ rpc' = "loop"
    /\ UNCHANGED <<collector, confVars, registryVars, Queries, now, loadVars,
                   lastErr, cycles, ctxDone, ticked, stopCalls, stoppedAt, collectVars,
                   published>>

\* a cancel that flips the state of Done
cancel_Toggle(done) == ~done

\* r.cancel() of context.WithCancel: closes Done once, later calls return at once
cancel(done) == TRUE

\* lines 263-265
Stop ==
    /\ rpc # "none"
    /\ stopCalls < MaxStops
    /\ stopCalls' = stopCalls + 1
    /\ ctxDone' = cancel(ctxDone)
    /\ stoppedAt' = IF stopCalls = 0 THEN [rpc |-> rpc, cycles |-> cycles]
                    ELSE stoppedAt
    /\ UNCHANGED <<collector, confVars, registryVars, Queries, now, loadVars,
                   lastErr, cycles, rpc, tickPending, ticked, collectVars, published>>

\* line 331: r.ctx is a child of the ctx given to the constructor; when that
\* context is cancelled Done of r.ctx closes as it does on r.cancel()
ParentCancel ==
    /\ rpc # "none"
    /\ ~ctxDone
    /\ ctxDone' = TRUE
    /\ UNCHANGED <<collector, confVars, registryVars, Queries, now, loadVars,
                   lastErr, cycles, rpc, tickPending, ticked, stopCalls, stoppedAt,
                   collectVars, published>>

\* the steps of a Reloader whose context is not cancelled
Reloader ==
    \/ NewKscProductCollectorReloader
    \/ RunStart
    \/ TickerFire
    \/ RunSleepDone
    \/ RunReload
    \/ RunSelectTick

Load ==
    \/ LoadBegin
    \/ LoadListMetrics
    \/ LoadCreateMetric
    \/ LoadInsert
    \/ LoadLoadSeries
    \/ LoadCurrentTime
    \/ LoadAppendQuery
    \/ LoadReturnNil

(***************************************************************************)
(* Collect.                                                                *)
(***************************************************************************)
\* lines 46-49
BatchSize ==
    IF Namespace = "KS3" THEN DefaultKS3QueryMetricBatchSize
    ELSE DefaultQueryMetricBatchSize

\* lines 43-70: split c.Queries as they are now (c.lock is not taken: a cycle
\* may be between two appends), wg.Add, one goroutine for each batch
CollectStart ==
    /\ collector = "ready"
    /\ cpc \in {"idle", "returned"}
    /\ queriesGroup' = SplitByBatch(Queries, BatchSize)
    /\ tasks' = [b \in DOMAIN queriesGroup' |-> "fetch"]
    /\ pms' = [b \in DOMAIN queriesGroup' |-> <<>>]
    /\ sink' = <<>>
    /\ \E c \in 0..MaxCapacity : capacity' = c
    /\ received' = 0
    /\ consumer' = "receiving"
    /\ cpc' = "wait"
    /\ UNCHANGED <<collector, confVars, registryVars, Queries, now, loadVars,
                   lastErr, cycles, reloaderVars, published>>

\* lines 58-64: the fetch of the goroutine of batch b returns
CollectFetch(b) ==
    /\ cpc = "wait"
    /\ tasks[b] = "fetch"
    /\ \E r \in GetPromMetricsOutcomes(b, queriesGroup[b]) :
          IF r.err
          THEN /\ tasks' = [tasks EXCEPT ![b] = "failed"]
               /\ pms' = pms
          ELSE /\ pms' = [pms EXCEPT ![b] = r.pms]
               /\ tasks' = [tasks EXCEPT ![b] = IF r.pms = <<>> THEN "done" ELSE "emit"]
    /\ UNCHANGED <<collector, confVars, registryVars, Queries, now, loadVars,
                   lastErr, cycles, reloaderVars, cpc, queriesGroup, sink, capacity,
                   received, consumer, published>>

\* the samples ch holds: sent and not yet received
Buffered == Len(sink) - received

\* a send on ch can complete: the buffer of ch has room for the sample, or the
\* buffer is empty and the consumer is receiving
SendReady ==
    \/ Buffered < capacity
    \/ Buffered = 0 /\ consumer = "receiving"

\* a send that gives the sample up when ch cannot take it
CollectEmit_Drop(b) ==
    /\ cpc = "wait"
    /\ tasks[b] = "emit"
    /\ IF SendReady
       THEN /\ sink' = Append(sink, Head(pms[b]))
            /\ received' = IF Buffered < capacity THEN received ELSE received + 1
       ELSE UNCHANGED <<sink, received>>
    /\ pms' = [pms EXCEPT ![b] = Tail(pms[b])]
    /\ tasks' = [tasks EXCEPT ![b] = IF Tail(pms[b]) = <<>> THEN "done" ELSE "emit"]
    /\ UNCHANGED <<collector, confVars, registryVars, Queries, now, loadVars,
                   lastErr, cycles, reloaderVars, cpc, queriesGroup, capacity,
                   consumer, published>>

\* lines 65-67 and 57: ch <- pm, a send that completes when the buffer of ch
\* has room (the sample is buffered) or the consumer takes the sample from the
\* sender, and wg.Done after the last one
CollectEmit(b) ==
    /\ cpc = "wait"
    /\ tasks[b] = "emit"
    /\ \/ /\ Buffered < capacity
          /\ received' = received
       \/ /\ Buffered = 0
          /\ consumer = "receiving"
          /\ received' = received + 1
    /\ sink' = Append(sink, Head(pms[b]))
    /\ pms' = [pms EXCEPT ![b] = Tail(pms[b])]
    /\ tasks' = [tasks EXCEPT ![b] = IF Tail(pms[b]) = <<>> THEN "done" ELSE "emit"]
    /\ UNCHANGED <<collector, confVars, registryVars, Queries, now, loadVars,
                   lastErr, cycles, reloaderVars, cpc, queriesGroup, capacity,
                   consumer, published>>

\* the counter of wg: the goroutines that have not called wg.Done
WaitGroup == Cardinality({ b \in DOMAIN tasks : tasks[b] \in {"fetch", "emit"} })

\* wg.Wait returning as soon as one goroutine is done
WaitReturns_Early == \E b \in DOMAIN tasks : tasks[b] \in {"done", "failed"}

\* line 71
WaitReturns == WaitGroup = 0

\* lines 71-73
CollectReturn ==
    /\ cpc = "wait"
    /\ WaitReturns
    /\ cpc' = "returned"
    /\ UNCHANGED <<collector, confVars, registryVars, Queries, now, loadVars,
                   lastErr, cycles, reloaderVars, queriesGroup, tasks, pms, sink,
                   capacity, received, consumer, published>>

\* the receiver of ch stops receiving while Collect is in progress
ConsumerStops ==
    /\ cpc = "wait"
    /\ consumer = "receiving"
    /\ consumer' = "stopped"
    /\ UNCHANGED <<collector, confVars, registryVars, Queries, now, loadVars,
                   lastErr, cycles, reloaderVars, cpc, queriesGroup, tasks, pms,
                   sink, capacity, received, published>>

\* the receiver of ch takes a sample the buffer of ch holds
ConsumerReceives ==
    /\ consumer = "receiving"
    /\ received < Len(sink)
    /\ received' = received + 1
    /\ UNCHANGED <<collector, confVars, registryVars, Queries, now, loadVars,
                   lastErr, cycles, reloaderVars, cpc, queriesGroup, tasks, pms,
                   sink, capacity, consumer, published>>

Collect ==
    \/ CollectStart
    \/ \E b \in DOMAIN tasks : CollectFetch(b)
    \/ \E b \in DOMAIN tasks : CollectEmit(b)
    \/ CollectReturn

Init == InitOn(MinimalDeployment)

InitSmall == InitOn(SmallDeployment)

InitFull == InitOn(FullDeployment)

\* cycle zero on the full deployment
NextDiscover ==
    \/ Advance
    \/ NewKscProductCollector
    \/ Load

SpecDiscover == InitFull /\ [][NextDiscover]_vars

\* cycle zero on the deployment with names and exclusion entries in both cases
InitCase == InitOn(CaseDeployment)

SpecExclude == InitCase /\ [][NextDiscover]_vars

\* cycle zero and the reloads of a Reloader that is never stopped
NextLoad ==
    \/ Advance
    \/ NewKscProductCollector
    \/ Load
    \/ Reloader

SpecLoad == InitSmall /\ [][NextLoad]_vars

\* a Reloader that may be stopped
NextReloader ==
    \/ NewKscProductCollector
    \/ Load
    \/ Reloader
    \/ RunSelectDone
    \/ Stop

SpecReloader == InitSmall /\ [][NextReloader]_vars

\* a Reloader whose context is cancelled by Stop or through its parent.  Run is
\* a goroutine that is scheduled, time passes and the Sleep ends; a reload in
\* progress
\* terminates; the select chooses uniformly at random among its ready cases,
\* so the Done case is not passed over forever.
NextRun ==
    \/ NewKscProductCollector
    \/ Load
    \/ Reloader
    \/ RunSelectDone
    \/ Stop
    \/ ParentCancel

FairRun ==
    /\ WF_vars(Load)
    /\ WF_vars(TickerFire)
    /\ WF_vars(RunSleepDone \/ RunReload)
    /\ SF_vars(RunSelectDone)

SpecRun == Init /\ [][NextRun]_vars /\ FairRun

\* scrapes concurrent with cycle zero's successor, the first reload of a Reloader
NextCollect ==
    \/ NewKscProductCollector
    \/ Load
    \/ NewKscProductCollectorReloader
    \/ RunStart
    \/ TickerFire
    \/ RunSleepDone
    \/ RunReload
    \/ Collect
    \/ ConsumerReceives

SpecCollect == InitSmall /\ [][NextCollect]_vars

\* scrapes of a constructed collector on a channel of any capacity whose
\* consumer may stop receiving.  Every fetch returns, the goroutines are
\* scheduled, a send that can complete does, and a consumer that has not
\* stopped receives what the channel holds.
NextScrape ==
    \/ NewKscProductCollector
    \/ Load
    \/ Collect
    \/ ConsumerReceives
    \/ ConsumerStops

FairScrape ==
    /\ WF_vars(\E b \in DOMAIN tasks : CollectFetch(b))
    /\ WF_vars(\E b \in DOMAIN tasks : CollectEmit(b))
    /\ WF_vars(ConsumerReceives)
    /\ WF_vars(CollectReturn)

SpecScrape == InitSmall /\ [][NextScrape]_vars /\ FairScrape

Next ==
    \/ Advance
    \/ NewKscProductCollector
    \/ Load
    \/ Reloader
    \/ RunSelectDone
    \/ Stop
    \/ ParentCancel
    \/ Collect
    \/ ConsumerReceives
    \/ ConsumerStops

Spec == Init /\ [][Next]_vars

(***************************************************************************)
(* Properties.                                                             *)
(***************************************************************************)
HasQuery(m) == \E i \in 1..Len(Queries) : Queries[i].Metric = m

\* the range loop of lines 125-134 is over and line 137 returns nil
CycleSucceeds == lpc = "queries" /\ todo = {}

\* C1: when a cycle returns success, a Metric of the Registry has a Query in
\* the Query Set if and only if its last load is less than 60 units before
\* the cycle's currentTime.
C1_QueryIffFresh ==
    CycleSucceeds =>
        \A key \in DOMAIN MetricMap :
            HasQuery(MetricMap[key]) <=> Fresh(MetricMap[key])

\* C2: when a cycle returns success, the Query Set holds at most one Query for
\* each Metric and no more Queries than the Registry has entries.
C2_OneQueryPerMetric ==
    CycleSucceeds =>
        /\ Len(Queries) <= Cardinality(DOMAIN MetricMap)
        /\ \A i, j \in 1..Len(Queries) :
              Queries[i].Metric = Queries[j].Metric => i = j

\* a cycle has appended to c.Queries and will append again before it returns
PartiallyRebuilt ==
    /\ lpc = "queries"
    /\ Queries # published
    /\ \E key \in todo : Fresh(MetricMap[key])

\* C3: the Query Set that Collect splits is the set the previous cycle
\* published or the complete set of the running cycle, never a set between them.
C3_NeverPartial ==
    [][(cpc # "wait" /\ cpc' = "wait") => ~PartiallyRebuilt]_vars

\* C4: a cycle that finds a key the Registry already has goes on with the
\* Metric the Registry holds for it and constructs none; no entry of the
\* Registry ever changes its Metric, and the series cache and load time of a
\* Metric change only when a cycle loads series into that Metric.
C4_Step ==
    /\ \A key \in DOMAIN MetricMap :
          key \in DOMAIN MetricMap' /\ MetricMap'[key] = MetricMap[key]
    /\ \A a \in DOMAIN Metrics :
          /\ a \in DOMAIN Metrics'
          /\ Metrics'[a] # Metrics[a] => lpc = "series" /\ nm = a
    /\ (lpc = "loop" /\ allMeta # <<>> /\ allMeta' # allMeta
        /\ ~Excluded(Head(allMeta)) /\ Key(Head(allMeta), ins) \in DOMAIN MetricMap)
       => /\ Metrics' = Metrics
          /\ lpc' = "insert"
          /\ nm' = MetricMap[Key(Head(allMeta), ins)]

C4_ReusesMetric == [][C4_Step]_vars

\* a reload is about to load series into a Metric that holds the series of an
\* earlier cycle
C4_Witness ==
    /\ cycles >= 1
    /\ lpc = "series"
    /\ Metrics[nm].SeriesCache # {}
    /\ Metrics[nm].LoadTimeAt # NeverLoaded

\* C5: the Metric a cycle goes on with for a discovered pair (metric name,
\* instance id) is a Metric constructed for that very pair.
C5_EntryPerPair ==
    [][(lpc = "loop" /\ lpc' = "insert")
         => (nm'[1] = Head(allMeta) /\ nm'[2] = ins)]_vars

\* C6: a step taken while the instance being visited is one whose ListMetrics
\* returned an error constructs and inserts nothing; no step inside loadMetrics
\* ends the cycle or drops an instance or a metadata entry that is still to
\* visit; the range loops end only when every instance and every entry has
\* been visited; and a cycle that logged a ListMetrics error returns nil.
C6_Step ==
    /\ (lpc = "loop" /\ ins \in skipped)
       => (UNCHANGED <<MetricMap, Metrics>> /\ lpc' \notin {"insert", "series"})
    /\ lpc \in {"loop", "insert", "series"}
       => lpc' \in {"loop", "insert", "series", "queries"}
    /\ lpc \in {"insert", "series"} => (allMeta' = allMeta /\ instances' = instances)
    /\ (lpc = "loop" /\ allMeta # <<>>)
       => (allMeta' \in {allMeta, Tail(allMeta)} /\ instances' = instances)
    /\ (lpc = "loop" /\ allMeta = <<>> /\ instances # <<>>)
       => (instances' \in {instances, Tail(instances)} /\ lpc' = "loop")
    /\ (lpc = "loop" /\ lpc' = "queries") => (instances = <<>> /\ allMeta = <<>>)
    /\ (lpc = "queries" /\ skipped # {} /\ lpc' = "idle") => lastErr' = "nil"

C6_ErrorsAreSkipped == [][C6_Step]_vars

\* the samples of batch b on the sink, in order
SinkOf(b) == SelectSeq(sink, LAMBDA x : x.batch = b)

SamplesOf(b) ==
    [i \in 1..Len(queriesGroup[b]) |-> [batch |-> b, query |-> queriesGroup[b][i]]]

\* C7: when Collect has returned there was one goroutine for each batch, every
\* goroutine has completed, a batch whose fetch failed has put nothing on the
\* sink and every other batch all of its samples.
C7_FullJoin ==
    cpc = "returned" =>
        /\ DOMAIN tasks = DOMAIN queriesGroup
        /\ \A b \in DOMAIN tasks :
              /\ tasks[b] \in {"done", "failed"}
              /\ tasks[b] = "failed" => SinkOf(b) = <<>>
              /\ tasks[b] = "done" => SinkOf(b) = SamplesOf(b)

\* Collect has returned, one fetch had failed and another batch is on the sink
C7_Witness ==
    /\ cpc = "returned"
    /\ \E b1, b2 \in DOMAIN tasks :
          /\ tasks[b1] = "failed"
          /\ tasks[b2] = "done"
          /\ SinkOf(b2) # <<>>

\* C8: if Stop is first called before Run has started a reload, Run starts none.
C8_StopBeforeFirstReload ==
    (stoppedAt.rpc \in {"created", "sleeping", "loop"} /\ stoppedAt.cycles = 0)
        => cycles = 0

\* C9: if Stop is first called while a reload is in progress, that reload is
\* the last one Run starts.
C9_NoReloadAfterStop ==
    stoppedAt.rpc = "reloading" => cycles = stoppedAt.cycles

\* C10: a second or later call of Stop changes nothing but the count of calls.
C10_Step ==
    (stopCalls >= 1 /\ stopCalls' = stopCalls + 1)
        => UNCHANGED <<deployment, collector, Namespace, confExclude, MetricMap,
                       Metrics, Queries, now, loadVars, lastErr, cycles, rpc,
                       ctxDone, tickPending, ticked, stoppedAt, collectVars, published>>

C10_StopIdempotent == [][C10_Step]_vars

\* Stop has been called twice and a reload is in progress
C10_Witness ==
    /\ stopCalls >= 2
    /\ ctxDone
    /\ rpc = "reloading"

\* Run has been called and has not returned
RunInProgress == rpc \in {"sleeping", "loop", "reloading", "select"}

\* Run is at the head of the loop and the model starts no further reload
ReloadBoundReached == rpc = "loop" /\ cycles = MaxReloads

\* C11: Run has returned only if Done of its context is closed (by Stop or by
\* the parent context), and once Done is closed while Run is in progress Run
\* returns (or reaches the bound on the reloads of the model), given that
\* reloads terminate.
C11_ReturnsIffCancelled ==
    /\ [](rpc = "returned" => ctxDone)
    /\ (ctxDone /\ RunInProgress) ~> (rpc = "returned" \/ ReloadBoundReached)

\* Run has returned after a reload, cancelled through the parent context alone
C11_Witness ==
    /\ rpc = "returned"
    /\ stopCalls = 0
    /\ cycles >= 1

\* C12: when a reload returns, with an error or with nil, Run goes to its
\* select; while Done is not closed Run leaves the select only by receiving a
\* tick, and from the head of the loop it does nothing but start the next
\* reload.
C12_Step ==
    /\ (rpc = "reloading" /\ lpc # "idle" /\ lpc' = "idle") => rpc' = "select"
    /\ (rpc = "select" /\ ~ctxDone /\ rpc' # "select")
       => (rpc' = "loop" /\ tickPending /\ ~tickPending')
    /\ (rpc = "loop" /\ rpc' # "loop")
       => (rpc' = "reloading" /\ lpc' = "start" /\ cycles' = cycles + 1)

C12_ErrorNotFatal == [][C12_Step]_vars

\* the reload before this one returned an error, Done is not closed, and Run
\* has received a tick and started the next reload
C12_Witness ==
    /\ cycles = 2
    /\ rpc = "reloading"
    /\ lpc = "start"
    /\ lastErr = "err"
    /\ ~ctxDone

\* the instances a cycle over the snapshot has to process
ToProcess ==
    [i \in 1..(IF IsSupportMultiDimensionNamespace(Namespace)
                  /\ Len(snapshot) > DefaultSupportInstances
               THEN DefaultSupportInstances
               ELSE Len(snapshot)) |-> snapshot[i]]

\* C13: in a cycle that has its snapshot, the instances ListMetrics was called
\* for followed by those still to visit are the first DefaultSupportInstances
\* of the snapshot when the namespace supports multi-dimension monitoring and
\* the snapshot is longer than that, and the whole snapshot otherwise; when
\* the cycle builds its queries none is left to visit.
C13_FirstMaxInstances ==
    lpc \in {"loop", "insert", "series", "queries"} =>
        /\ listed \o instances = ToProcess
        /\ lpc = "queries" => instances = <<>>

\* a cycle of a multi-dimension namespace got two instances and has listed
\* the metrics of the first one only
C13_Witness ==
    /\ lpc = "queries"
    /\ IsSupportMultiDimensionNamespace(Namespace)
    /\ Len(snapshot) > DefaultSupportInstances
    /\ listed = <<snapshot[1]>>

\* the lowercase form of name is the lowercase form of a configured entry
ExcludedByConf(name) ==
    \E i \in 1..Len(confExclude) : ToLower(confExclude[i]) = ToLower(name)

\* the step of a cycle that takes the next discovered metric
TakesMeta == lpc = "loop" /\ allMeta # <<>> /\ allMeta' = Tail(allMeta)

\* no step makes a Metric of an excluded name or stores one in the Registry
NoExcludedMetric ==
    /\ \A a \in DOMAIN Metrics' \ DOMAIN Metrics : ~ExcludedByConf(a[1])
    /\ \A key \in DOMAIN MetricMap' :
          (key \notin DOMAIN MetricMap \/ MetricMap'[key] # MetricMap[key])
              => ~ExcludedByConf(MetricMap'[key][1])
    /\ (TakesMeta /\ ExcludedByConf(Head(allMeta)))
       => (UNCHANGED registryVars /\ lpc' = "loop")

\* the discovered metric is constructed or reused: the cycle goes on to
\* insert, for this metadata, the Metric the Registry holds for the key or a
\* Metric it has just made
ConstructedOrReused ==
    /\ lpc' = "insert"
    /\ meta' = Head(allMeta)
    /\ nm' \in DOMAIN Metrics'
    /\ IF Key(Head(allMeta), ins) \in DOMAIN MetricMap
       THEN nm' = MetricMap[Key(Head(allMeta), ins)] /\ Metrics' = Metrics
       ELSE nm' \notin DOMAIN Metrics

\* the insert stores the Metric of the lookup or construction under the key
InsertsIt ==
    lpc = "insert" =>
        (lpc' = "insert" \/ (lpc' = "series"
                             /\ Key(meta, ins) \in DOMAIN MetricMap'
                             /\ MetricMap'[Key(meta, ins)] = nm))

\* C14 as stated: no Metric of an excluded name, in whatever letter case, is
\* constructed or inserted, and every discovered metric not excluded is
\* constructed or reused.
C14_AsStated ==
    [][/\ NoExcludedMetric
       /\ InsertsIt
       /\ (TakesMeta /\ ~ExcludedByConf(Head(allMeta))) => ConstructedOrReused]_vars

\* C14: no Metric of an excluded name, in whatever letter case, is constructed
\* or inserted; a discovered metric not excluded is reused if the Registry has
\* its key and otherwise constructed, unless the construction fails, and then
\* the cycle skips it and leaves the Registry as it is.
C14_ExclusionFilter ==
    [][/\ NoExcludedMetric
       /\ InsertsIt
       /\ (TakesMeta /\ ~ExcludedByConf(Head(allMeta)))
          => \/ ConstructedOrReused
             \/ /\ Key(Head(allMeta), ins) \notin DOMAIN MetricMap
                /\ UNCHANGED registryVars
                /\ lpc' = "loop"]_vars

\* a cycle has constructed a Metric and is about to filter a discovered name
\* that differs in letter case from the entry that excludes it
C14_Witness ==
    /\ lpc = "loop"
    /\ allMeta # <<>>
    /\ ExcludedByConf(Head(allMeta))
    /\ \A i \in 1..Len(confExclude) : confExclude[i] # Head(allMeta)
    /\ \E a \in DOMAIN Metrics : a[2] = ins

\* C15: a cycle that returns from its start, where GetInstances or
\* GetProductConfig failed, returns an error to its caller, has called
\* ListMetrics for no instance and leaves the Registry, the Metrics and the
\* Query Set as they were; a constructor then fails and a Reloader goes to
\* its select.
C15_Step ==
    (lpc = "start" /\ lpc' = "idle")
        => /\ lastErr' = "err"
           /\ listed = <<>>
           /\ UNCHANGED <<MetricMap, Metrics, Queries>>
           /\ collector = "constructing" => collector' = "failed"
           /\ rpc = "reloading" => rpc' = "select"

C15_AbortKeepsState == [][C15_Step]_vars

\* a reload has returned an error and the Registry and the Query Set still
\* hold what cycle zero put there
C15_Witness ==
    /\ cycles = 1
    /\ rpc = "select"
    /\ lastErr = "err"
    /\ Queries # <<>>
    /\ DOMAIN MetricMap # {}

\* an execution of LoadMetricsByProductConf is in progress
CycleInProgress == lpc # "idle"

\* C16: an execution of LoadMetricsByProductConf in progress was called either
\* by NewKscProductCollector, which has not returned, or by a Run that waits
\* for it, never by both; and whenever the constructor or Run calls
\* LoadMetricsByProductConf no execution is in progress.
C16_Step ==
    ((collector # "constructing" /\ collector' = "constructing") \/ cycles' # cycles)
        => (~CycleInProgress /\ lpc' = "start")

C16_NoOverlap ==
    /\ [](CycleInProgress <=> (collector = "constructing" \/ rpc = "reloading"))
    /\ [](~(collector = "constructing" /\ rpc = "reloading"))
    /\ [][C16_Step]_vars

\* the second reload is in progress and the ticker has fired again: Run is in
\* the call and starts nothing
C16_Witness ==
    /\ cycles = 2
    /\ rpc = "reloading"
    /\ lpc = "series"
    /\ tickPending

\* C17: no step, of a cycle that succeeds or fails or of anything else,
\* removes a key from the Registry.
C17_RegistryOnlyGrows == [][DOMAIN MetricMap \subseteq DOMAIN MetricMap']_vars

\* a reload that found no instance is about to return: the Registry still has
\* the Metric of cycle zero, which is stale
C17_Witness ==
    /\ cycles >= 1
    /\ CycleSucceeds
    /\ snapshot = <<>>
    /\ \E key \in DOMAIN MetricMap : ~Fresh(MetricMap[key])

\* C18: the collector becomes available only in the step in which cycle zero
\* returns nil; a constructor that fails before cycle zero runs no cycle; a
\* cycle zero that returns an error fails the constructor; a failed
\* constructor stays failed; and while there is no collector nothing reloads
\* it or collects from it.
C18_Step ==
    /\ (collector # "ready" /\ collector' = "ready")
       => (collector = "constructing" /\ CycleSucceeds /\ lastErr' = "nil")
    /\ (collector = "none" /\ collector' = "failed")
       => (lpc' = "idle" /\ lastErr' = "none" /\ UNCHANGED <<registryVars, Queries>>)
    /\ (collector = "constructing" /\ lpc' = "idle")
       => collector' = (IF lastErr' = "err" THEN "failed" ELSE "ready")
    /\ collector = "failed" => collector' = "failed"

C18_CollectorAfterCycleZero ==
    /\ [](collector # "ready" => (rpc = "none" /\ cpc = "idle"))
    /\ [][C18_Step]_vars

\* cycle zero has returned an error: the constructor has failed and there is
\* no collector to reload or to collect from
C18_Witness ==
    /\ collector = "failed"
    /\ lastErr = "err"
    /\ rpc = "none"
    /\ cpc = "idle"

\* C19: whenever Run starts a reload the ticker, whose period is the reload
\* interval, has fired since Run began and since Run started the reload
\* before; two starts with no firing of the ticker between them are less than
\* one interval apart.
C19_IntervalBetweenReloads == [][cycles' # cycles => ticked]_vars

\* the consumer has stopped receiving while the goroutine of a successful batch
\* still has a sample to send
StoppedWithSamples ==
    /\ cpc = "wait"
    /\ consumer = "stopped"
    /\ \E b \in DOMAIN tasks : tasks[b] = "emit"

\* the samples the goroutines that have fetched still have to send
PendingSamples ==
    Cardinality({ bi \in (DOMAIN pms) \X (1..BatchSize) : bi[2] <= Len(pms[bi[1]]) })

\* the consumer has stopped receiving while the goroutines still have more
\* samples to send than the buffer of ch has room for
Unsendable ==
    /\ cpc = "wait"
    /\ consumer = "stopped"
    /\ PendingSamples > capacity - Buffered

\* a Collect in progress returns provided the consumer keeps receiving
ReturnsWhileConsumed == (cpc = "wait") ~> (cpc = "returned" \/ consumer = "stopped")

\* C20 as stated: a Collect in progress returns unless the consumer stops
\* receiving; and once the consumer has stopped while a goroutine has a sample
\* to send, Collect never returns.
C20_AsStated ==
    /\ ReturnsWhileConsumed
    /\ [](StoppedWithSamples => [](cpc = "wait"))

\* C20: a Collect in progress returns unless the consumer stops receiving, and
\* also when the consumer stops but the buffer of the sink has room for every
\* sample still to send; once the consumer has stopped while the goroutines
\* have more samples to send than the buffer has room for, Collect never
\* returns.
C20_ReturnsUnlessBlocked ==
    /\ ReturnsWhileConsumed
    /\ (cpc = "wait") ~> (cpc = "returned" \/ Unsendable)
    /\ [](Unsendable => [](cpc = "wait"))

\* the consumer has stopped, the buffer of the sink is full of samples nobody
\* received and a goroutine has one more to send
C20_Witness ==
    /\ Unsendable
    /\ capacity > 0
    /\ Buffered = capacity
    /\ StoppedWithSamples

====
